---------------------------- MODULE Spec2Model ----------------------------
(***************************************************************************)
(* A model of the comment store of src/comments/__init__.py: the Comment   *)
(* value object, the comments table with its primary key, and the store's  *)
(* create / get / search / update / delete / anonymize operations.         *)
(*                                                                         *)
(* Representation                                                          *)
(*   identifiers   <<"b", n>> is the raw 16-byte form of identifier n,     *)
(*                 <<"s", n>> its encoded string form; n = 0 is the empty  *)
(*                 / all-zero ("unset") value.                             *)
(*   addresses     an ipaddress object is [version, packed]; packed is the *)
(*                 big-endian sequence of 16-bit groups: 2 groups for the  *)
(*                 4 bytes of an IPv4 address, 8 groups for the 16 bytes   *)
(*                 of an IPv6 address.  An integer address value is the    *)
(*                 8-group big-endian form of a 128-bit number.            *)
(*   time          a time value handed to int() is a count of half seconds *)
(*                 (time.time() is a float); the table stores whole        *)
(*                 seconds.                                                *)
(*   optional      a keyword argument is <<>> when absent, <<v>> when      *)
(*                 supplied with value v.                                  *)
(***************************************************************************)
EXTENDS Integers, Sequences, FiniteSets, TLC

VARIABLES
    table,      \* the rows of the comments table
    now,        \* the wall clock, in whole seconds
    before,     \* the table as it was when the last call started
    call,       \* the last call: operation, arguments, outcome
    ops,        \* number of store calls made so far
    comments,   \* the in-memory collection the caller holds
    done,       \* progress of the anonymize_comment_origins job
    start,      \* the table when the job's first collection was taken
    pc,         \* per-writer position inside create_comment
    local,      \* per-writer Comment under construction
    pages       \* the pages fetched so far by the paging caller

vars == <<table, now, before, call, ops, comments, done, start, pc, local, pages>>

----------------------------------------------------------------------------
\* Bounds of the model.

MaxId == 2
MaxTime == 1
MaxOps == 2
MaxPerPage == 2

Ids == 1..MaxId
Times == 0..MaxTime

----------------------------------------------------------------------------
\* Optional keyword arguments.

Absent == <<>>
Some(v) == <<v>>
Has(o) == Len(o) = 1
Val(o) == o[1]

----------------------------------------------------------------------------
\* The identifier codec (parse_id package).

Bytes(n) == <<"b", n>>
Str(n) == <<"s", n>>
EmptyId == Str(0)

parse_id(x) ==
    IF x[1] = "b"
    THEN [id |-> Str(x[2]), id_bytes |-> x]
    ELSE [id |-> x, id_bytes |-> Bytes(x[2])]

get_id_bytes(x) == parse_id(x).id_bytes

\* generate_or_parse_id(id): a missing or empty id is replaced by uuid4().
generate_or_parse_id(o, fresh) ==
    IF Has(o) /\ Val(o)[2] # 0 THEN parse_id(Val(o)) ELSE parse_id(Bytes(fresh))

----------------------------------------------------------------------------
\* ipaddress.ip_address and the integer view of an address.

Loopback == [version |-> 4, packed |-> <<32512, 1>>]                  \* 127.0.0.1
V4A == [version |-> 4, packed |-> <<258, 772>>]                       \* 1.2.3.4
V6A == [version |-> 6,
        packed |-> <<8193, 3512, 34211, 0, 0, 35374, 880, 29492>>]    \* 2001:db8:85a3::8a2e:370:7334
V6Low == [version |-> 6, packed |-> <<0, 0, 0, 0, 0, 0, 0, 1>>]       \* ::1

\* ip_address(bytes): 4 bytes make an IPv4 address, 16 bytes an IPv6 one.
ip_address_bytes(p) == [version |-> IF Len(p) = 2 THEN 4 ELSE 6, packed |-> p]

\* ip_address(int): an integer below 2**32 is an IPv4 address, else IPv6.
ip_address_int(n) ==
    IF \A i \in 1..6 : n[i] = 0
    THEN [version |-> 4, packed |-> <<n[7], n[8]>>]
    ELSE [version |-> 6, packed |-> n]

\* int.from_bytes(packed, 'big')
int_from_bytes(p) ==
    IF Len(p) = 2 THEN <<0, 0, 0, 0, 0, 0, p[1], p[2]>> ELSE p

\* A variant that flips the trailing groups (n ^ mask) and clears nothing.
ClearTrailing_xor(n, k) == [i \in 1..8 |-> IF i > 8 - k THEN 65535 - n[i] ELSE n[i]]

\* n & ~mask, for a mask of the k trailing 16-bit groups
ClearTrailing(n, k) == [i \in 1..8 |-> IF i > 8 - k THEN 0 ELSE n[i]]

----------------------------------------------------------------------------
\* class Comment

\* int(t) of a time value counted in half seconds
int(t) == t \div 2

Comment(kw, clock, fresh) ==
    LET pid == generate_or_parse_id(kw.id, fresh)
        sid == parse_id(IF Has(kw.subject_id) THEN Val(kw.subject_id) ELSE EmptyId)
        uid == parse_id(IF Has(kw.user_id) THEN Val(kw.user_id) ELSE EmptyId)
    IN  [id |-> pid.id,
         id_bytes |-> pid.id_bytes,
         creation_time |->
            int(IF Has(kw.creation_time) THEN Val(kw.creation_time) ELSE clock),
         edit_time |-> int(IF Has(kw.edit_time) THEN Val(kw.edit_time) ELSE 0),
         subject_id |-> sid.id,
         subject_id_bytes |-> sid.id_bytes,
         remote_origin |->
            IF Has(kw.remote_origin) THEN Val(kw.remote_origin) ELSE Loopback,
         user_id |-> uid.id,
         user_id_bytes |-> uid.id_bytes,
         body |-> IF Has(kw.body) THEN Val(kw.body) ELSE ""]

\* The Comment built from a row by search_comments.
CommentOfRow(row) ==
    [id |-> parse_id(row.id).id,
     id_bytes |-> parse_id(row.id).id_bytes,
     creation_time |-> row.creation_time,
     edit_time |-> row.edit_time,
     subject_id |-> parse_id(row.subject_id).id,
     subject_id_bytes |-> parse_id(row.subject_id).id_bytes,
     remote_origin |-> ip_address_bytes(row.remote_origin),
     user_id |-> parse_id(row.user_id).id,
     user_id_bytes |-> parse_id(row.user_id).id_bytes,
     body |-> row.body]

\* A variant that writes the creation time into both time columns.
RowOf_one_time(comment) ==
    [id |-> comment.id_bytes,
     creation_time |-> comment.creation_time,
     edit_time |-> comment.creation_time,
     subject_id |-> comment.subject_id_bytes,
     remote_origin |-> comment.remote_origin.packed,
     user_id |-> comment.user_id_bytes,
     body |-> comment.body]

\* The column values create_comment inserts for a Comment.
RowOf(comment) ==
    [id |-> comment.id_bytes,
     creation_time |-> comment.creation_time,
     edit_time |-> comment.edit_time,
     subject_id |-> comment.subject_id_bytes,
     remote_origin |-> comment.remote_origin.packed,
     user_id |-> comment.user_id_bytes,
     body |-> comment.body]

----------------------------------------------------------------------------
\* The comments table and its statements.

\* A variant for a table declared without the primary key.
PrimaryKeyViolation_undeclared(tbl, row) == FALSE

\* Column('id', LargeBinary(16), primary_key=True): the storage engine
\* refuses a row whose id is already present.
PrimaryKeyViolation(tbl, row) == \E r \in tbl : r.id = row.id

\* comments.insert(): the table after the statement, and whether it failed.
Insert(tbl, row) ==
    IF PrimaryKeyViolation(tbl, row)
    THEN [table |-> tbl, error |-> "IntegrityError"]
    ELSE [table |-> tbl \cup {row}, error |-> "none"]

\* id_filter(filter, key, column), applied to one row's column value:
\* no condition when the key is missing, membership otherwise.
id_filter(filter_value, column_value) ==
    Has(filter_value) =>
        column_value \in {get_id_bytes(x) : x \in Val(filter_value)}

NoFilter == [ids |-> Absent, subject_ids |-> Absent, user_ids |-> Absent]
IdsFilter(id) == [NoFilter EXCEPT !.ids = Some({id})]
UserIdsFilter(id) == [NoFilter EXCEPT !.user_ids = Some({id})]

\* prepare_comments_search_statement: the conjunction of the conditions.
Matches(row, filter) ==
    /\ id_filter(filter.ids, row.id)
    /\ id_filter(filter.subject_ids, row.subject_id)
    /\ id_filter(filter.user_ids, row.user_id)

Selected(tbl, filter) == {r \in tbl : Matches(r, filter)}

\* A variant whose ids condition is put on the subject_id column.
count_comments_subject_column(tbl, filter) ==
    Cardinality({r \in tbl : id_filter(filter.ids, r.subject_id)})

count_comments(tbl, filter) == Cardinality(Selected(tbl, filter))

\* sort_statement: one ORDER BY column (creation_time unless sort is "id"),
\* descending unless order is "asc".  Rows equal in that column come in an
\* order the statement does not determine.
SortKey(row, sort) == IF sort = "id" THEN row.id[2] ELSE row.creation_time

InOrder(a, b, sort, order) ==
    IF order = "asc"
    THEN SortKey(a, sort) <= SortKey(b, sort)
    ELSE SortKey(a, sort) >= SortKey(b, sort)

Orderings(rows, sort, order) ==
    {s \in [1..Cardinality(rows) -> rows] :
        /\ \A i, j \in DOMAIN s : i # j => s[i] # s[j]
        /\ \A i, j \in DOMAIN s : i < j => InOrder(s[i], s[j], sort, order)}

\* paginate_statement: LIMIT perpage OFFSET page * perpage, when perpage is given.
Min(a, b) == IF a < b THEN a ELSE b

paginate_statement(s, page, perpage) ==
    IF Has(perpage)
    THEN SubSeq(s, page * Val(perpage) + 1, Min(Len(s), (page + 1) * Val(perpage)))
    ELSE s

\* search_comments: every collection the call can return.
search_comments(tbl, filter, sort, order, page, perpage) ==
    {[i \in DOMAIN paginate_statement(s, page, perpage) |->
            CommentOfRow(paginate_statement(s, page, perpage)[i])] :
        s \in Orderings(Selected(tbl, filter), sort, order)}

\* get_comment: the comment found under the id, as a set (empty: not found).
get_comment(tbl, id) ==
    {c \in UNION {{s[i] : i \in DOMAIN s} :
                    s \in search_comments(tbl, IdsFilter(id), "", "", 0, Absent)} :
        c.id_bytes = get_id_bytes(id)}

----------------------------------------------------------------------------
\* Arguments the callers of the model supply.

NoKw ==
    [id |-> Absent, creation_time |-> Absent, edit_time |-> Absent,
     subject_id |-> Absent, remote_origin |-> Absent, user_id |-> Absent,
     body |-> Absent]

\* An identifier argument comes in either form.
IdArgs == {Bytes(n) : n \in Ids} \cup {Str(n) : n \in Ids}

\* The form the writers of the model use for identifier n.
IdArg(n) == IF n % 2 = 1 THEN Bytes(n) ELSE Str(n)

\* A valid timestamp argument is a whole number of seconds.
TimeArgs == {0, 2 * MaxTime}

\* Keyword arguments other than id: none, any single field, or all fields.
FieldArgs ==
    {NoKw}
    \cup {[NoKw EXCEPT !.creation_time = Some(t)] : t \in TimeArgs}
    \cup {[NoKw EXCEPT !.edit_time = Some(t)] : t \in TimeArgs}
    \cup {[NoKw EXCEPT !.subject_id = Some(Bytes(1))],
          [NoKw EXCEPT !.remote_origin = Some(V6A)],
          [NoKw EXCEPT !.user_id = Some(Str(1))],
          [NoKw EXCEPT !.body = Some("a")],
          [id |-> Absent, creation_time |-> Some(0),
           edit_time |-> Some(2 * MaxTime),
           subject_id |-> Some(Str(MaxId)), remote_origin |-> Some(V4A),
           user_id |-> Some(Bytes(MaxId)), body |-> Some("")]}

CreateArgs ==
    {[kw EXCEPT !.id = Some(IdArg(n))] : kw \in FieldArgs, n \in Ids}
    \cup {NoKw, [NoKw EXCEPT !.creation_time = Some(2 * MaxTime)]}

UpdateArgs == {[kw EXCEPT !.id = Some(IdArg(n))] : kw \in FieldArgs, n \in Ids}

\* time.time(): some instant within the current second.
Clock == {2 * now, 2 * now + 1}

\* The readings that matter to a call: one stands for all when none is used.
ClockIf(used) == IF used THEN Clock ELSE {2 * now}

\* uuid4(): an identifier no row uses (0 stands in when none is drawn).
uuid4(tbl, needed) ==
    IF needed THEN {n \in Ids : \A r \in tbl : r.id # Bytes(n)} ELSE {0}

NoCall ==
    [op |-> "none", kw |-> NoKw, ret |-> "none", now |-> 0,
     result |-> {}, new_id |-> Bytes(0)]

----------------------------------------------------------------------------
\* Comments.create_comment

create_comment(kw) ==
    /\ \E clock \in ClockIf(~Has(kw.creation_time)), fresh \in uuid4(table, ~Has(kw.id)) :
        LET comment == Comment(kw, clock, fresh)
            ins == Insert(table, RowOf(comment))
            failed == IF count_comments(table, IdsFilter(comment.id_bytes)) > 0
                      THEN "ValueError"
                      ELSE ins.error
        IN  /\ table' = IF failed = "ValueError" THEN table ELSE ins.table
            /\ call' = [NoCall EXCEPT !.op = "create_comment", !.kw = kw,
                            !.now = now,
                            !.ret = IF failed = "none" THEN "ok" ELSE failed,
                            !.result = IF failed = "none" THEN {comment} ELSE {}]
    /\ before' = table
    /\ ops' = ops + 1
    /\ UNCHANGED <<now, comments, done, start, pc, local, pages>>

----------------------------------------------------------------------------
\* Comments.update_comment

\* A variant that puts creation_time into every update set.
Updates_always_creation_time(kwargs, comment) ==
    [creation_time |-> Some(comment.creation_time),
     edit_time |-> Some(comment.edit_time),
     subject_id |->
        IF Has(kwargs.subject_id) THEN Some(comment.subject_id_bytes) ELSE Absent,
     remote_origin |->
        IF Has(kwargs.remote_origin) THEN Some(comment.remote_origin.packed) ELSE Absent,
     body |-> IF Has(kwargs.body) THEN Some(comment.body) ELSE Absent,
     user_id |->
        IF Has(kwargs.user_id) THEN Some(comment.user_id_bytes) ELSE Absent]

\* The column-update set built from the keyword arguments.
Updates(kwargs, comment) ==
    [creation_time |->
        IF Has(kwargs.creation_time) THEN Some(comment.creation_time) ELSE Absent,
     edit_time |-> Some(comment.edit_time),
     subject_id |->
        IF Has(kwargs.subject_id) THEN Some(comment.subject_id_bytes) ELSE Absent,
     remote_origin |->
        IF Has(kwargs.remote_origin) THEN Some(comment.remote_origin.packed) ELSE Absent,
     body |-> IF Has(kwargs.body) THEN Some(comment.body) ELSE Absent,
     user_id |->
        IF Has(kwargs.user_id) THEN Some(comment.user_id_bytes) ELSE Absent]

len(updates) == Cardinality({c \in DOMAIN updates : Has(updates[c])})

\* One row after UPDATE ... SET updates.
SetColumns(row, updates) ==
    [c \in DOMAIN row |->
        IF c \in DOMAIN updates /\ Has(updates[c]) THEN Val(updates[c]) ELSE row[c]]

\* comments.update().values(**updates).where(comments.c.id == id_bytes)
UpdateWhereId(tbl, id_bytes, updates) ==
    {IF r.id = id_bytes THEN SetColumns(r, updates) ELSE r : r \in tbl}

update_comment(kw) ==
    /\ \E clock \in ClockIf(~Has(kw.edit_time)) :
        LET kwargs == IF Has(kw.edit_time) THEN kw
                      ELSE [kw EXCEPT !.edit_time = Some(clock)]
            comment == Comment(kwargs, clock, 0)
            updates == Updates(kwargs, comment)
        IN  /\ table' = IF len(updates) = 0 THEN table
                        ELSE UpdateWhereId(table, comment.id_bytes, updates)
            /\ call' = [NoCall EXCEPT !.op = "update_comment", !.kw = kw,
                            !.now = now, !.ret = "ok"]
    /\ before' = table
    /\ ops' = ops + 1
    /\ UNCHANGED <<now, comments, done, start, pc, local, pages>>

----------------------------------------------------------------------------
\* Comments.delete_comment

\* A variant whose statement has lost its WHERE clause.
DeleteWhereId_no_where(tbl, id_bytes) == {}

\* comments.delete().where(comments.c.id == id)
DeleteWhereId(tbl, id_bytes) == {r \in tbl : r.id # id_bytes}

delete_comment(id) ==
    /\ table' = DeleteWhereId(table, get_id_bytes(id))
    /\ call' = [NoCall EXCEPT !.op = "delete_comment", !.kw = [NoKw EXCEPT !.id = Some(id)],
                    !.ret = "ok"]
    /\ before' = table
    /\ ops' = ops + 1
    /\ UNCHANGED <<now, comments, done, start, pc, local, pages>>

----------------------------------------------------------------------------
\* Comments.anonymize_id

\* A variant whose WHERE clause tests the subject_id column.
UpdateUserWhereUser_subject_column(tbl, id_bytes, new_id) ==
    {IF r.subject_id = id_bytes THEN [r EXCEPT !.user_id = new_id] ELSE r : r \in tbl}

\* comments.update().values(user_id=new_id).where(comments.c.user_id == id)
UpdateUserWhereUser(tbl, id_bytes, new_id) ==
    {IF r.user_id = id_bytes THEN [r EXCEPT !.user_id = new_id] ELSE r : r \in tbl}

\* uuid4().bytes for a replacement user id: one that no row carries and that
\* is not the id being replaced (0 stands in when none is drawn).
uuid4_user(tbl, id_bytes, needed) ==
    IF needed
    THEN {n \in 1..(MaxId + 1) :
            Bytes(n) # id_bytes /\ \A r \in tbl : r.user_id # Bytes(n)}
    ELSE {0}

\* new_id is used as given: it is not passed through the identifier codec.
anonymize_id(id, new_id) ==
    /\ \E fresh \in uuid4_user(table, get_id_bytes(id), ~Has(new_id)) :
        LET id_bytes == get_id_bytes(id)
            new == IF Has(new_id) THEN Val(new_id) ELSE Bytes(fresh)
        IN  /\ table' = UpdateUserWhereUser(table, id_bytes, new)
            /\ call' = [NoCall EXCEPT !.op = "anonymize_id",
                            !.kw = [NoKw EXCEPT !.id = Some(id), !.user_id = new_id],
                            !.ret = "ok", !.new_id = new]
    /\ before' = table
    /\ ops' = ops + 1
    /\ UNCHANGED <<now, comments, done, start, pc, local, pages>>

----------------------------------------------------------------------------
\* Comments.search_comments, as a call whose result the caller keeps.

search(filter, sort, order, page, perpage) ==
    /\ comments' \in search_comments(table, filter, sort, order, page, perpage)
    /\ call' = [NoCall EXCEPT !.op = "search_comments", !.ret = "ok"]
    /\ before' = table
    /\ ops' = ops + 1
    /\ UNCHANGED <<table, now, done, start, pc, local, pages>>

----------------------------------------------------------------------------
\* Comments.anonymize_comment_origins

\* The coarsened address of one comment; Absent when the version is neither
\* 4 nor 6 (the ValueError branch).
AnonymizedOrigin(origin) ==
    IF origin.version = 4
    THEN Some(ip_address_int(ClearTrailing(int_from_bytes(origin.packed), 1)))
    ELSE IF origin.version = 6
    THEN Some(ip_address_int(ClearTrailing(int_from_bytes(origin.packed), 5)))
    ELSE Absent

\* One pass of the loop body: the UPDATE of the row with the comment's id.
AnonymizeOne(tbl, comment) ==
    LET anonymized_origin == AnonymizedOrigin(comment.remote_origin)
    IN  IF ~Has(anonymized_origin)
        THEN [table |-> tbl, error |-> "ValueError"]
        ELSE [table |->
                UpdateWhereId(tbl, comment.id_bytes,
                    [remote_origin |-> Some(Val(anonymized_origin).packed)]),
              error |-> "none"]

\* The loop from the i-th comment of the collection on; an error ends it.
RECURSIVE AnonymizeFrom(_, _, _)
AnonymizeFrom(tbl, coll, i) ==
    IF i > Len(coll)
    THEN [table |-> tbl, error |-> "none"]
    ELSE LET one == AnonymizeOne(tbl, coll[i])
         IN  IF one.error # "none" THEN one ELSE AnonymizeFrom(one.table, coll, i + 1)

anonymize_comment_origins(coll) ==
    /\ table' = AnonymizeFrom(table, coll, 1).table
    /\ call' = [NoCall EXCEPT !.op = "anonymize_comment_origins",
                    !.ret = IF AnonymizeFrom(table, coll, 1).error = "none"
                            THEN "ok" ELSE "ValueError"]
    /\ before' = table
    /\ ops' = ops + 1
    /\ UNCHANGED <<now, comments, done, start, pc, local, pages>>

----------------------------------------------------------------------------
\* The clock advances between calls.
Tick ==
    /\ now < MaxTime
    /\ now' = now + 1
    /\ UNCHANGED <<table, before, call, ops, comments, done, start, pc, local, pages>>

----------------------------------------------------------------------------
Writers == 1..2

\* The paging caller has not started.
NoPaging ==
    [status |-> "idle", filter |-> NoFilter, sort |-> "", order |-> "",
     perpage |-> 1, page |-> 0, got |-> <<>>]

\* No anonymization job has taken a collection yet.
NoJob ==
    [status |-> "idle", k |-> 0, seen |-> {}, first |-> <<>>, crashed |-> FALSE]

Init ==
    /\ table = {}
    /\ now = 0
    /\ before = {}
    /\ call = NoCall
    /\ ops = 0
    /\ comments = <<>>
    /\ done = NoJob
    /\ start = {}
    /\ pc = [w \in Writers |-> "idle"]
    /\ local = [w \in Writers |-> {}]
    /\ pages = NoPaging

Create == ops < MaxOps /\ \E kw \in CreateArgs : create_comment(kw)
Update == ops < MaxOps /\ \E kw \in UpdateArgs : update_comment(kw)
Delete == ops < MaxOps /\ \E id \in IdArgs : delete_comment(id)

Next == Create \/ Update \/ Delete \/ Tick

Spec == Init /\ [][Next]_vars

----------------------------------------------------------------------------
\* The whole life of a comment, with fewer argument shapes and one more call.

FullKw ==
    [id |-> Absent, creation_time |-> Some(2 * MaxTime), edit_time |-> Some(2 * MaxTime),
     subject_id |-> Some(Bytes(1)), remote_origin |-> Some(V6A),
     user_id |-> Some(Str(1)), body |-> Some("a")]

LifeArgs == {[kw EXCEPT !.id = Some(IdArg(n))] : kw \in {NoKw, FullKw}, n \in Ids}

LifeCreate == ops < MaxOps + 1 /\ \E kw \in LifeArgs : create_comment(kw)
LifeUpdate == ops < MaxOps + 1 /\ \E kw \in LifeArgs : update_comment(kw)
LifeDelete == ops < MaxOps + 1 /\ \E id \in IdArgs : delete_comment(id)

NextLife == LifeCreate \/ LifeUpdate \/ LifeDelete \/ Tick

SpecLife == Init /\ [][NextLife]_vars

----------------------------------------------------------------------------
\* Properties of create, get, update and delete.

\* The keyword arguments, other than id, a call supplied.
Supplied(kw) == {c \in DOMAIN kw \ {"id"} : Has(kw[c])}

\* The row of the table before the call that the call's id names.
Target(tbl, kw) == {r \in tbl : r.id[2] = Val(kw.id)[2]}

\* A Comment's identifier attributes denote the identifier x was given as.
IsId(x, id, id_bytes) == id = Str(x[2]) /\ id_bytes = Bytes(x[2])

\* C1: after a successful create_comment, get_comment of the new id returns
\* one comment whose every field is the supplied value (a timestamp of whole
\* seconds as that number of seconds), an absent field its default:
\* creation_time the current second, edit_time 0, subject_id and user_id
\* unset, remote_origin 127.0.0.1, body empty.
C1_CreateThenGet ==
    (call.op = "create_comment" /\ call.ret = "ok") =>
        \A made \in call.result :
            LET kw == call.kw
                got == get_comment(table, IF Has(kw.id) THEN Val(kw.id) ELSE made.id)
            IN  /\ Cardinality(got) = 1
                /\ \A c \in got :
                    /\ Has(kw.id) => IsId(Val(kw.id), c.id, c.id_bytes)
                    /\ IF Has(kw.creation_time)
                       THEN 2 * c.creation_time = Val(kw.creation_time)
                       ELSE c.creation_time = call.now
                    /\ IF Has(kw.edit_time)
                       THEN 2 * c.edit_time = Val(kw.edit_time)
                       ELSE c.edit_time = 0
                    /\ IF Has(kw.subject_id)
                       THEN IsId(Val(kw.subject_id), c.subject_id, c.subject_id_bytes)
                       ELSE IsId(EmptyId, c.subject_id, c.subject_id_bytes)
                    /\ IF Has(kw.user_id)
                       THEN IsId(Val(kw.user_id), c.user_id, c.user_id_bytes)
                       ELSE IsId(EmptyId, c.user_id, c.user_id_bytes)
                    /\ c.remote_origin =
                        IF Has(kw.remote_origin) THEN Val(kw.remote_origin) ELSE Loopback
                    /\ c.body = IF Has(kw.body) THEN Val(kw.body) ELSE ""

\* A comment with an IPv6 origin was created beside an older row, after the
\* clock had advanced.
C1_Witness ==
    /\ call.op = "create_comment" /\ call.ret = "ok"
    /\ call.kw.remote_origin = Some(V6A)
    /\ before # {}
    /\ call.now > 0

\* C2: create_comment with an explicit id that a row of the table already
\* has fails with the collision error (ValueError) and leaves the table as
\* it was.
C2_Collision ==
    (/\ call.op = "create_comment"
     /\ Has(call.kw.id)
     /\ Target(before, call.kw) # {}) =>
        /\ call.ret = "ValueError"
        /\ table = before

\* A create with all fields supplied collided with a row that holds
\* other values.
C2_Witness ==
    /\ call.op = "create_comment"
    /\ call.ret = "ValueError"
    /\ Supplied(call.kw) # {}
    /\ \E r \in Target(before, call.kw) : r.body # "" \/ r.user_id # Bytes(0)

\* C3: update_comment(id) with no keyword argument leaves the table as it
\* was, edit_time included.
C3_UpdateNothing ==
    (call.op = "update_comment" /\ Supplied(call.kw) = {}) => table = before

\* C4: update_comment on an existing row with at least one field supplied
\* leaves one row under that id, whose edit_time is the supplied edit_time or
\* else the current second, whose other supplied columns hold the supplied
\* values, and whose remaining columns are as before.
C4_Update ==
    (/\ call.op = "update_comment"
     /\ Supplied(call.kw) # {}
     /\ Target(before, call.kw) # {}) =>
        \A old \in Target(before, call.kw) :
            LET kw == call.kw
                new == Target(table, kw)
            IN  /\ Cardinality(new) = 1
                /\ \A r \in new :
                    /\ r.id = old.id
                    /\ r.edit_time =
                        IF Has(kw.edit_time) THEN Val(kw.edit_time) \div 2 ELSE call.now
                    /\ IF Has(kw.creation_time)
                       THEN 2 * r.creation_time = Val(kw.creation_time)
                       ELSE r.creation_time = old.creation_time
                    /\ r.subject_id =
                        IF Has(kw.subject_id) THEN Bytes(Val(kw.subject_id)[2])
                        ELSE old.subject_id
                    /\ r.user_id =
                        IF Has(kw.user_id) THEN Bytes(Val(kw.user_id)[2])
                        ELSE old.user_id
                    /\ r.remote_origin =
                        IF Has(kw.remote_origin) THEN Val(kw.remote_origin).packed
                        ELSE old.remote_origin
                    /\ r.body = IF Has(kw.body) THEN Val(kw.body) ELSE old.body

\* A body-only update, made after the clock advanced, of a row created at
\* second 0.
C4_Witness ==
    /\ call.op = "update_comment"
    /\ Supplied(call.kw) = {"body"}
    /\ call.now > 0
    /\ \E r \in Target(before, call.kw) : r.edit_time = 0 /\ r.body # Val(call.kw.body)

\* C8: a delete_comment returns normally, leaves no comment to get under its
\* id and every row with another id as it was (so the table is unchanged
\* when the id names no row); and an id under which no comment is found
\* stays so in every step that is not a successful create_comment of that id.
C8_DeleteState ==
    call.op = "delete_comment" =>
        /\ call.ret = "ok"
        /\ get_comment(table, Val(call.kw.id)) = {}
        /\ table = before \ Target(before, call.kw)

C8_StaysDeleted ==
    \A x \in IdArgs :
        (get_comment(table, x) = {} /\ get_comment(table', x) # {}) =>
            /\ ops' = ops + 1
            /\ call'.op = "create_comment"
            /\ call'.ret = "ok"
            /\ \E c \in call'.result : c.id_bytes = get_id_bytes(x)

C8_Delete == []C8_DeleteState /\ [][C8_StaysDeleted]_vars

\* A row was deleted from a table of two rows, in the last call the budget
\* allows.
C8_Witness ==
    /\ call.op = "delete_comment"
    /\ Target(before, call.kw) # {}
    /\ table # {}
    /\ ops = MaxOps + 1

----------------------------------------------------------------------------
\* Comments by several users, and the replacement of a user id.

UserArgs ==
    {[NoKw EXCEPT !.id = Some(IdArg(n)), !.user_id = u, !.body = b] :
        n \in Ids, u \in {Absent} \cup {Some(IdArg(m)) : m \in Ids}, b \in {Absent, Some("a")}}

NewIdArgs == {Absent} \cup {Some(Bytes(n)) : n \in Ids}

UserCreate == ops < MaxOps + 1 /\ \E kw \in UserArgs : create_comment(kw)
UserAnonymize ==
    ops < MaxOps + 1 /\ \E id \in IdArgs, new_id \in NewIdArgs : anonymize_id(id, new_id)

NextUser == UserCreate \/ UserAnonymize

SpecUser == Init /\ [][NextUser]_vars

----------------------------------------------------------------------------
\* Comments from several origins, and the coarsening of the origins of a
\* collection the caller got from a search.

OriginArgs ==
    {[NoKw EXCEPT !.id = Some(IdArg(n)), !.remote_origin = a] :
        n \in Ids, a \in {Absent, Some(V4A), Some(V6A), Some(V6Low)}}

SearchFilters == {NoFilter} \cup {IdsFilter(x) : x \in IdArgs}

OriginCreate == ops < MaxOps + 2 /\ \E kw \in OriginArgs : create_comment(kw)
OriginSearch ==
    ops < MaxOps + 2 /\ \E f \in SearchFilters : search(f, "", "", 0, Absent)
OriginAnonymize == ops < MaxOps + 2 /\ anonymize_comment_origins(comments)

NextOrigin == OriginCreate \/ OriginSearch \/ OriginAnonymize

SpecOrigin == Init /\ [][NextOrigin]_vars

\* The same address with its trailing 16 bits (IPv4) or 80 bits (IPv6) zero.
TrailingCleared(a) ==
    [version |-> a.version,
     packed |-> IF a.version = 4
                THEN <<a.packed[1], 0>>
                ELSE <<a.packed[1], a.packed[2], a.packed[3], 0, 0, 0, 0, 0>>]

\* C6: after anonymize_comment_origins(comments) the row of every comment of
\* the collection holds that comment's address with the trailing 16 bits
\* (IPv4) or 80 bits (IPv6) cleared, in the same address family; its other
\* columns, and every row not in the collection, are as before the call.
C6_Origins ==
    call.op = "anonymize_comment_origins" =>
        table =
            {IF \E i \in DOMAIN comments : comments[i].id_bytes = r.id
             THEN [r EXCEPT !.remote_origin =
                    TrailingCleared(
                        (CHOOSE c \in {comments[i] : i \in DOMAIN comments} :
                            c.id_bytes = r.id).remote_origin).packed]
             ELSE r : r \in before}

----------------------------------------------------------------------------
\* anonymize_comment_origins as a job over all comments, one UPDATE
\* statement at a time, each committed on its own: the job can fail between
\* two statements, and the caller runs it again, on the collection it holds
\* or on one it searches anew.

BatchArgs ==
    {[NoKw EXCEPT !.id = Some(IdArg(n)), !.remote_origin = a] :
        n \in Ids, a \in {Absent, Some(V6A), Some(V6Low)}}

BatchCreate ==
    /\ done.status = "idle"
    /\ ops < MaxOps
    /\ \E kw \in BatchArgs : create_comment(kw)

\* search_comments(): the collection of all comments.
BatchSearch ==
    /\ done.status \in {"idle", "crashed", "finished"}
    /\ comments' \in search_comments(table, NoFilter, "", "", 0, Absent)
    /\ done' = IF done.status = "idle"
               THEN [done EXCEPT !.status = "ready", !.first = comments']
               ELSE [done EXCEPT !.status = "ready"]
    /\ start' = IF done.status = "idle" THEN table ELSE start
    /\ UNCHANGED <<table, now, before, call, ops, pc, local, pages>>

\* The call starts.
BatchBegin ==
    /\ done.status \in {"ready", "crashed", "finished"}
    /\ done' = [done EXCEPT !.status = "running", !.k = 0]
    /\ UNCHANGED <<table, now, before, call, ops, comments, start, pc, local, pages>>

\* One pass of the loop.
BatchStep ==
    /\ done.status = "running"
    /\ done.k < Len(comments)
    /\ table' = AnonymizeOne(table, comments[done.k + 1]).table
    /\ done' = [done EXCEPT !.k = done.k + 1,
                    !.seen = done.seen \cup {comments[done.k + 1].id_bytes}]
    /\ UNCHANGED <<now, before, call, ops, comments, start, pc, local, pages>>

\* The loop is over and the call returns.
BatchReturn ==
    /\ done.status = "running"
    /\ done.k = Len(comments)
    /\ done' = [done EXCEPT !.status = "finished"]
    /\ UNCHANGED <<table, now, before, call, ops, comments, start, pc, local, pages>>

\* The call fails (or the process dies) before its next statement.
BatchCrash ==
    /\ done.status = "running"
    /\ done.k < Len(comments)
    /\ done' = [done EXCEPT !.status = "crashed", !.crashed = TRUE]
    /\ UNCHANGED <<table, now, before, call, ops, comments, start, pc, local, pages>>

NextBatch ==
    BatchCreate \/ BatchSearch \/ BatchBegin \/ BatchStep \/ BatchReturn \/ BatchCrash

SpecBatch == Init /\ [][NextBatch]_vars

\* C10: whatever runs of the job failed and were repeated, the table is the
\* one the job started from with the origin coarsened in exactly the rows a
\* pass of the loop has reached, every other row and column untouched; and
\* when a run has gone through, the table is the one a single uninterrupted
\* run on the first collection leaves.
C10_Rerunnable ==
    done.status # "idle" =>
        /\ table =
            {IF r.id \in done.seen
             THEN [r EXCEPT !.remote_origin =
                    Val(AnonymizedOrigin(ip_address_bytes(r.remote_origin))).packed]
             ELSE r : r \in start}
        /\ done.status = "finished" =>
            table = AnonymizeFrom(start, done.first, 1).table

\* A run over several comments failed part-way, and a later run went through;
\* every row was changed.
C10_Witness ==
    /\ done.status = "finished"
    /\ done.crashed
    /\ Len(comments) > 1
    /\ \A r \in start : r \notin table

----------------------------------------------------------------------------
\* A caller that reads a search page by page, with a fixed page size, until
\* a page comes back empty.  The table does not change while it reads.

PageArgs ==
    {[NoKw EXCEPT !.id = Some(IdArg(n)), !.creation_time = Some(t), !.user_id = u] :
        n \in Ids, t \in TimeArgs, u \in {Absent, Some(IdArg(1))}}

PageCreate ==
    /\ pages.status = "idle"
    /\ ops < MaxOps + 1
    /\ \E kw \in PageArgs : create_comment(kw)

PageStart ==
    /\ pages.status = "idle"
    /\ \E f \in {NoFilter, UserIdsFilter(IdArg(1))}, sort \in {"", "id"},
          order \in {"", "asc"}, perpage \in 1..MaxPerPage :
        pages' = [NoPaging EXCEPT !.status = "paging", !.filter = f, !.sort = sort,
                        !.order = order, !.perpage = perpage]
    /\ UNCHANGED <<table, now, before, call, ops, comments, done, start, pc, local>>

\* search_comments(filter, sort, order, page, perpage) for the next page.
PageFetch ==
    /\ pages.status = "paging"
    /\ \E result \in search_comments(table, pages.filter, pages.sort, pages.order,
                                     pages.page, Some(pages.perpage)) :
        pages' = IF result = <<>>
                 THEN [pages EXCEPT !.status = "done"]
                 ELSE [pages EXCEPT !.page = pages.page + 1, !.got = pages.got \o result]
    /\ UNCHANGED <<table, now, before, call, ops, comments, done, start, pc, local>>

NextPages == PageCreate \/ PageStart \/ PageFetch

SpecPages == Init /\ [][NextPages]_vars

\* C7: when the first empty page has come back, the pages read so far, one
\* after the other, are an unpaginated sorted result of the same search:
\* the same comments in sorted order, none twice and none missing.
C7_Pages ==
    pages.status = "done" =>
        pages.got \in search_comments(table, pages.filter, pages.sort, pages.order,
                                      0, Absent)

----------------------------------------------------------------------------
\* Two writers, each in a create_comment call of its own connection: the
\* preflight count and the insert are separate statements.

ConcBegin(w) ==
    /\ pc[w] = "idle"
    /\ \E kw \in LifeArgs :
        \E clock \in ClockIf(~Has(kw.creation_time)) :
            local' = [local EXCEPT ![w] = {Comment(kw, clock, 0)}]
    /\ pc' = [pc EXCEPT ![w] = "preflight"]
    /\ UNCHANGED <<table, now, before, call, ops, comments, done, start, pages>>

ConcPreflight(w) ==
    /\ pc[w] = "preflight"
    /\ \E comment \in local[w] :
        pc' = [pc EXCEPT ![w] =
                IF count_comments(table, IdsFilter(comment.id_bytes)) > 0
                THEN "ValueError" ELSE "insert"]
    /\ UNCHANGED <<table, now, before, call, ops, comments, done, start, local, pages>>

ConcInsert(w) ==
    /\ pc[w] = "insert"
    /\ \E comment \in local[w] :
        LET ins == Insert(table, RowOf(comment))
        IN  /\ table' = ins.table
            /\ pc' = [pc EXCEPT ![w] =
                        IF ins.error = "none" THEN "returned" ELSE ins.error]
    /\ UNCHANGED <<now, before, call, ops, comments, done, start, local, pages>>

NextConc ==
    \E w \in Writers : ConcBegin(w) \/ ConcPreflight(w) \/ ConcInsert(w)

SpecConc == Init /\ [][NextConc]_vars

\* The comment writer w is creating.
Creating(w) == CHOOSE comment \in local[w] : TRUE

\* C9: however two create_comment calls interleave, no two rows of the table
\* share an id; of two calls with the same id at most one returns; the row a
\* returned call wrote stays as written; and a call whose insert is refused
\* by the primary key shares its id with a call that returned.
C9_OneRowPerId ==
    /\ \A r1, r2 \in table : r1.id = r2.id => r1 = r2
    /\ \A w1, w2 \in Writers :
        (w1 # w2 /\ pc[w1] = "returned" /\ pc[w2] = "returned") =>
            Creating(w1).id_bytes # Creating(w2).id_bytes
    /\ \A w \in Writers : pc[w] = "returned" => RowOf(Creating(w)) \in table
    /\ \A w \in Writers :
        pc[w] = "IntegrityError" =>
            \E w2 \in Writers \ {w} :
                /\ pc[w2] = "returned"
                /\ Creating(w2).id_bytes = Creating(w).id_bytes

\* Both writers passed the preflight with the same id and different fields;
\* the first insert went in and the second was refused.
C9_Witness ==
    /\ pc[1] = "returned"
    /\ pc[2] = "IntegrityError"
    /\ Creating(1).body # Creating(2).body

=============================================================================
